---- MODULE Spec2Model ----
(***************************************************************************)
(* Model of the VariantType library (src/index.ts): the Variant base class *)
(* with its match dispatch, the Result family (Ok, Err), the Option family *)
(* (Some, None) with its combinators, the Shape example family and the     *)
(* findEven example function.                                              *)
(*                                                                         *)
(* Objects live in a heap (a sequence of records, the address of an object *)
(* is its index), so that object identity, allocation by map/flatMap and   *)
(* mutation of a receiver are all visible.  Every call is one action; the  *)
(* outcome of the last call (return value, thrown message, the handlers    *)
(* and callbacks it invoked) is kept in the variable last.                 *)
(***************************************************************************)
EXTENDS Integers, Sequences, FiniteSets, TLC

\* Bounds of the model.
MaxHeap == 3   \* objects that may be allocated
MaxRoots == 1  \* objects that may be built by calling a constructor directly
MaxNum == 1    \* numbers passed to constructors are 0..MaxNum
MaxLen == 3    \* length of the arrays given to findEven
MaxElem == 2   \* elements of those arrays are -MaxElem..MaxElem

VARIABLES heap, last, numbers
vars == <<heap, last, numbers>>

----------------------------------------------------------------------------
\* JavaScript values: numbers, undefined, NaN, object references, and a
\* sentinel standing for the constant a handler of a test returns.
Num(n) == [k |-> "number", n |-> n]
Undefined == [k |-> "undefined", n |-> 0]
NaN == [k |-> "NaN", n |-> 0]
Ref(a) == [k |-> "object", n |-> a]
Sentinel == [k |-> "sentinel", n |-> 0]

\* Property read x.field on an object: undefined when the field is absent.
Get(h, a, field) == IF field \in DOMAIN h[a] THEN h[a][field] ELSE Undefined

\* The outcome of evaluating an expression: the heap after it, the value
\* returned, the message of the error thrown ("" when none), and the calls
\* of handlers and callbacks made on the way, in order.
Outcome(h, ret, threw, calls) ==
  [heap |-> h, ret |-> ret, threw |-> threw, calls |-> calls]
Returns(h, ret) == Outcome(h, ret, "", <<>>)
Throws(h, msg) == Outcome(h, Undefined, msg, <<>>)
Call(who, arg) == [who |-> who, arg |-> arg]

----------------------------------------------------------------------------
\* Constructors: new C(...) appends the object and returns its reference.
New(h, obj) == Returns(Append(h, obj), Ref(Len(h) + 1))

Ok(h, value) == New(h, [tag |-> "Ok", value |-> value])
\* Variant: an Err that keeps its payload under the name value.
ErrValueField(h, error) == New(h, [tag |-> "Err", value |-> error])
Err(h, error) == New(h, [tag |-> "Err", error |-> error])
ResultOk(h, value) == Ok(h, value)
\* Variant: Result.err building an Ok.
ResultErrAsOk(h, error) == Ok(h, error)
ResultErr(h, error) == Err(h, error)

Some(h, value) == New(h, [tag |-> "Some", value |-> value])
None(h) == New(h, [tag |-> "None"])
OptionSome(h, value) == Some(h, value)
OptionNone(h) == None(h)

Circle(h, radius) == New(h, [tag |-> "Circle", radius |-> radius])
Rectangle(h, width, height) ==
  New(h, [tag |-> "Rectangle", width |-> width, height |-> height])
Triangle(h, base, height) ==
  New(h, [tag |-> "Triangle", base |-> base, height |-> height])
ShapeCircle(h, radius) == Circle(h, radius)
ShapeRectangle(h, width, height) == Rectangle(h, width, height)
ShapeTriangle(h, base, height) == Triangle(h, base, height)

\* The declared case sets and payload shapes.
ResultTag == {"Ok", "Err"}
OptionTag == {"Some", "None"}
ShapeTag == {"Circle", "Rectangle", "Triangle"}
AllTags == ResultTag \cup OptionTag \cup ShapeTag
TagSet(tag) ==
  IF tag \in ResultTag THEN ResultTag
  ELSE IF tag \in OptionTag THEN OptionTag ELSE ShapeTag
Shape(tag) ==
  CASE tag = "Ok" -> {"value"}
    [] tag = "Err" -> {"error"}
    [] tag = "Some" -> {"value"}
    [] tag = "None" -> {}
    [] tag = "Circle" -> {"radius"}
    [] tag = "Rectangle" -> {"width", "height"}
    [] tag = "Triangle" -> {"base", "height"}

----------------------------------------------------------------------------
\* Caller-supplied callbacks f of map and flatMap, by name.
\*   double     x => x * 2
\*   undefined  x => undefined
\*   someDouble x => Option.some(x * 2)
\*   none       _ => Option.none()
Double(v) == IF v.k = "number" THEN Num(v.n * 2) ELSE NaN

ApplyF(f, h, v) ==
  CASE f = "double" -> Returns(h, Double(v))
    [] f = "undefined" -> Returns(h, Undefined)
    [] f = "someDouble" -> OptionSome(h, Double(v))
    [] f = "none" -> OptionNone(h)

\* Handler bodies, [b, x]:
\*   get       p => p.x                       (x a field name)
\*   sentinel  () => sentinel
\*   mapSome   ({ value }) => Option.some(f(value))   (x the name of f)
\*   flatSome  ({ value }) => f(value)                (x the name of f)
\*   mkNone    () => Option.none()
Body(b, x) == [b |-> b, x |-> x]
Handler(key, body) == [key |-> key, body |-> body]

Invoke(body, h, a) ==
  CASE body.b = "get" -> Returns(h, Get(h, a, body.x))
    [] body.b = "sentinel" -> Returns(h, Sentinel)
    [] body.b = "mapSome" ->
         LET r == ApplyF(body.x, h, Get(h, a, "value"))
             s == OptionSome(r.heap, r.ret)
         IN Outcome(s.heap, s.ret, "", <<Call("f", Get(h, a, "value"))>>)
    [] body.b = "flatSome" ->
         LET r == ApplyF(body.x, h, Get(h, a, "value"))
         IN Outcome(r.heap, r.ret, "", <<Call("f", Get(h, a, "value"))>>)
    [] body.b = "mkNone" -> OptionNone(h)

\* Variant: a dispatch that takes the first handler declared.
LookupFirst(handlers, tag) == IF Len(handlers) > 0 THEN 1 ELSE 0

\* handlers[this.tag]: the entry of the object literal under that key, at
\* whatever position it was written; 0 when there is none.
Lookup(handlers, tag) ==
  IF \E i \in 1..Len(handlers) : handlers[i].key = tag
  THEN CHOOSE i \in 1..Len(handlers) : handlers[i].key = tag
  ELSE 0

\* Variant.match: calling an absent handler is a TypeError.
Match(h, self, handlers) ==
  LET i == Lookup(handlers, h[self].tag) IN
  IF i = 0 THEN Throws(h, "TypeError: handler is not a function")
  ELSE LET r == Invoke(handlers[i].body, h, self)
       IN Outcome(r.heap, r.ret, r.threw,
                  <<Call(handlers[i].key, Ref(self))>> \o r.calls)

\* Variants of map: one that does not wrap the value of f, one that stores
\* it in the receiver; and of flatMap: one that wraps the Option of f.
MapNoWrap(h, self, f) ==
  Match(h, self, <<Handler("Some", Body("flatSome", f)),
                   Handler("None", Body("mkNone", ""))>>)
MapInPlace(h, self, f) ==
  IF h[self].tag = "Some"
  THEN LET r == ApplyF(f, h, h[self].value)
       IN Outcome([r.heap EXCEPT ![self].value = r.ret], Ref(self), "",
                  <<Call("Some", Ref(self)), Call("f", h[self].value)>>)
  ELSE Outcome(h, Ref(self), "", <<Call("None", Ref(self))>>)
FlatMapWrap(h, self, f) ==
  Match(h, self, <<Handler("Some", Body("mapSome", f)),
                   Handler("None", Body("mkNone", ""))>>)

\* Option.map and Option.flatMap, through match.
Map(h, self, f) ==
  Match(h, self, <<Handler("Some", Body("mapSome", f)),
                   Handler("None", Body("mkNone", ""))>>)
FlatMap(h, self, f) ==
  Match(h, self, <<Handler("Some", Body("flatSome", f)),
                   Handler("None", Body("mkNone", ""))>>)

\* Variants: an unwrapOr of Some that returns the default, an unwrap of None
\* that returns undefined, an unwrapOr of None that drops the default.
SomeUnwrapOrDefault(h, self, defaultValue) == Returns(h, defaultValue)
NoneUnwrapUndefined(h, self) == Returns(h, Undefined)
NoneUnwrapOrUndefined(h, self, defaultValue) == Returns(h, Undefined)

\* Methods of class Some.
SomeIsSome(h, self) == TRUE
SomeIsNone(h, self) == FALSE
SomeUnwrap(h, self) == Returns(h, h[self].value)
SomeUnwrapOr(h, self, defaultValue) == Returns(h, h[self].value)

\* Methods of class None.
NoneIsSome(h, self) == FALSE
NoneIsNone(h, self) == TRUE
NoneUnwrap(h, self) == Throws(h, "Cannot unwrap None")
NoneUnwrapOr(h, self, defaultValue) == Returns(h, defaultValue)

\* Virtual dispatch of the abstract methods of Option on the receiver's class.
Bool(b) == [k |-> "boolean", n |-> IF b THEN 1 ELSE 0]
IsSomeClass(h, self) == h[self].tag = "Some"
IsSome(h, self) ==
  Returns(h, Bool(IF IsSomeClass(h, self) THEN SomeIsSome(h, self)
                  ELSE NoneIsSome(h, self)))
IsNone(h, self) ==
  Returns(h, Bool(IF IsSomeClass(h, self) THEN SomeIsNone(h, self)
                  ELSE NoneIsNone(h, self)))
Unwrap(h, self) ==
  IF IsSomeClass(h, self) THEN SomeUnwrap(h, self) ELSE NoneUnwrap(h, self)
UnwrapOr(h, self, defaultValue) ==
  IF IsSomeClass(h, self) THEN SomeUnwrapOr(h, self, defaultValue)
  ELSE NoneUnwrapOr(h, self, defaultValue)

----------------------------------------------------------------------------
\* The example function findEven.
\* JavaScript's n % m: the remainder takes the sign of the dividend.
JsRem(n, m) == IF n >= 0 THEN n % m ELSE 0 - ((0 - n) % m)
IsEven(n) == JsRem(n, 2) = 0

\* numbers.find((n) => n % 2 === 0): the first element the predicate
\* accepts, undefined when there is none.
RECURSIVE FindFrom(_, _)
FindFrom(nums, i) ==
  IF i > Len(nums) THEN Undefined
  ELSE IF IsEven(nums[i]) THEN Num(nums[i])
  ELSE FindFrom(nums, i + 1)
Find(nums) == FindFrom(nums, 1)

\* Variant: a test of the found element for truthiness, which 0 fails.
FindEvenTruthy(h, nums) ==
  LET even == Find(nums) IN
  IF even # Undefined /\ even # Num(0) THEN OptionSome(h, even)
  ELSE OptionNone(h)

FindEven(h, nums) ==
  LET even == Find(nums) IN
  IF even # Undefined THEN OptionSome(h, even) ELSE OptionNone(h)

----------------------------------------------------------------------------
\* Inputs.
Prim == {Undefined} \cup {Num(n) : n \in 0..MaxNum}
Dims == {Num(n) : n \in 1..MaxNum}
Callbacks == {"double", "undefined", "someDouble", "none"}
OptionCallbacks == {"someDouble", "none"}
Options(h) == {a \in 1..Len(h) : h[a].tag \in OptionTag}

\* The handler a caller writes under a key: it reads one payload field of
\* that case, or returns the sentinel.
CallerBodies(key) ==
  {Body("sentinel", "")} \cup {Body("get", f) : f \in Shape(key)}
AllCallerBodies == UNION {CallerBodies(key) : key \in AllTags}
Perms(S) ==
  {p \in [1..Cardinality(S) -> S] : \A i, j \in 1..Cardinality(S) :
                                        p[i] = p[j] => i = j}
\* Object literals over the keys K, in every order of declaration.
HandlerMapsOver(K) ==
  {[i \in 1..Cardinality(K) |-> Handler(p[i], b[p[i]])] :
     p \in Perms(K),
     b \in {c \in [K -> AllCallerBodies] : \A key \in K : c[key] \in CallerBodies(key)}}
\* Well-typed maps have every key of the family; a map forced through the
\* type checker may lack one (its handlers return the sentinel).
FullMaps(tags) == HandlerMapsOver(tags)
PartialMaps(tags) ==
  {[i \in 1..(Cardinality(tags) - 1) |-> Handler(p[i], Body("sentinel", ""))] :
     p \in UNION {Perms(tags \ {key}) : key \in tags}}
ResultFullMaps == FullMaps(ResultTag)
OptionFullMaps == FullMaps(OptionTag)
ShapeFullMaps == FullMaps(ShapeTag)
ResultPartialMaps == PartialMaps(ResultTag)
OptionPartialMaps == PartialMaps(OptionTag)
ShapePartialMaps == PartialMaps(ShapeTag)
FullMapsFor(tag) ==
  IF tag \in ResultTag THEN ResultFullMaps
  ELSE IF tag \in OptionTag THEN OptionFullMaps ELSE ShapeFullMaps
PartialMapsFor(tag) ==
  IF tag \in ResultTag THEN ResultPartialMaps
  ELSE IF tag \in OptionTag THEN OptionPartialMaps ELSE ShapePartialMaps
MapsFor(tag) == FullMapsFor(tag) \cup PartialMapsFor(tag)

ExampleArrays == {<<1, 3, 5, 7, 8, 9>>, <<1, 3, 5, 7, 9>>}
BoundedArrays ==
  UNION {[1..n -> (0 - MaxElem)..MaxElem] : n \in 0..MaxLen}
Arrays == BoundedArrays \cup ExampleArrays

----------------------------------------------------------------------------
\* The record of a call: what was called on which receiver with which
\* arguments, the size of the heap before it, and its outcome.
Record(op, self, arg, fn, handlers, base, r) ==
  [op |-> op, self |-> self, arg |-> arg, fn |-> fn, handlers |-> handlers,
   base |-> base, ret |-> r.ret, threw |-> r.threw, calls |-> r.calls]
NoCall == Record("none", 0, Undefined, "", <<>>, 0, Returns(<<>>, Undefined))

\* The caller makes one call at a time: a call takes place when the outcome
\* of the previous one has been consumed and the heap has room for what the
\* call allocates.
Do(op, self, arg, fn, handlers, r) ==
  /\ Len(r.heap) <= MaxHeap
  /\ heap' = r.heap
  /\ last' = Record(op, self, arg, fn, handlers, Len(heap), r)
  /\ UNCHANGED numbers

Init ==
  /\ heap = <<>>
  /\ last = NoCall
  /\ numbers = <<>>

\* Direct calls of the named constructors.
CallResultOk ==
  /\ last = NoCall
  /\ Len(heap) < MaxRoots
  /\ \E v \in Prim : Do("Result.ok", 0, v, "", <<>>, ResultOk(heap, v))
CallResultErr ==
  /\ last = NoCall
  /\ Len(heap) < MaxRoots
  /\ \E e \in Prim : Do("Result.err", 0, e, "", <<>>, ResultErr(heap, e))
CallOptionSome ==
  /\ last = NoCall
  /\ Len(heap) < MaxRoots
  /\ \E v \in Prim : Do("Option.some", 0, v, "", <<>>, OptionSome(heap, v))
CallOptionNone ==
  /\ last = NoCall
  /\ Len(heap) < MaxRoots
  /\ Do("Option.none", 0, Undefined, "", <<>>, OptionNone(heap))
CallShapeCircle ==
  /\ last = NoCall
  /\ Len(heap) < MaxRoots
  /\ \E r \in Dims : Do("Shape.circle", 0, r, "", <<>>, ShapeCircle(heap, r))
CallShapeRectangle ==
  /\ last = NoCall
  /\ Len(heap) < MaxRoots
  /\ \E w \in Dims, ht \in Dims :
       Do("Shape.rectangle", 0, w, "", <<>>, ShapeRectangle(heap, w, ht))
CallShapeTriangle ==
  /\ last = NoCall
  /\ Len(heap) < MaxRoots
  /\ \E b \in Dims, ht \in Dims :
       Do("Shape.triangle", 0, b, "", <<>>, ShapeTriangle(heap, b, ht))

CallMatch ==
  /\ last = NoCall
  /\ \E self \in 1..Len(heap) :
       \E handlers \in MapsFor(heap[self].tag) :
         Do("match", self, Undefined, "", handlers, Match(heap, self, handlers))

CallIsSome ==
  /\ last = NoCall
  /\ \E self \in Options(heap) :
       Do("isSome", self, Undefined, "", <<>>, IsSome(heap, self))
CallIsNone ==
  /\ last = NoCall
  /\ \E self \in Options(heap) :
       Do("isNone", self, Undefined, "", <<>>, IsNone(heap, self))
CallUnwrap ==
  /\ last = NoCall
  /\ \E self \in Options(heap) :
       Do("unwrap", self, Undefined, "", <<>>, Unwrap(heap, self))
CallUnwrapOr ==
  /\ last = NoCall
  /\ \E self \in Options(heap) : \E d \in Prim :
       Do("unwrapOr", self, d, "", <<>>, UnwrapOr(heap, self, d))
CallMap ==
  /\ last = NoCall
  /\ \E self \in Options(heap) : \E f \in Callbacks :
       Do("map", self, Undefined, f, <<>>, Map(heap, self, f))
CallFlatMap ==
  /\ last = NoCall
  /\ \E self \in Options(heap) : \E f \in OptionCallbacks :
       Do("flatMap", self, Undefined, f, <<>>, FlatMap(heap, self, f))

\* The caller has consumed the outcome of the last call.
Continue ==
  /\ last # NoCall
  /\ last' = NoCall
  /\ UNCHANGED <<heap, numbers>>

Next ==
  \/ CallResultOk
  \/ CallResultErr
  \/ CallOptionSome
  \/ CallOptionNone
  \/ CallShapeCircle
  \/ CallShapeRectangle
  \/ CallShapeTriangle
  \/ CallMatch
  \/ CallIsSome
  \/ CallIsNone
  \/ CallUnwrap
  \/ CallUnwrapOr
  \/ CallMap
  \/ CallFlatMap
  \/ Continue

Spec == Init /\ [][Next]_vars

\* The example program: findEven applied to an array, and the Option it
\* returns put to use.
InitFindEven ==
  /\ heap = <<>>
  /\ last = NoCall
  /\ numbers \in Arrays

CallFindEven ==
  /\ last = NoCall
  /\ Len(heap) < MaxRoots
  /\ Do("findEven", 0, Undefined, "", <<>>, FindEven(heap, numbers))

NextFindEven ==
  \/ CallFindEven
  \/ CallIsSome
  \/ CallUnwrap
  \/ CallUnwrapOr
  \/ CallMap
  \/ Continue

SpecFindEven == InitFindEven /\ [][NextFindEven]_vars

----------------------------------------------------------------------------
\* Properties.

Receiver == heap[last.self]
Keys(handlers) == {handlers[i].key : i \in 1..Len(handlers)}
Entries(handlers) == {handlers[i] : i \in 1..Len(handlers)}
FullMatch ==
  /\ last.op = "match"
  /\ Keys(last.handlers) = TagSet(Receiver.tag)
\* What the body a caller wrote returns on the object obj.
Expected(body, obj) == IF body.b = "get" THEN obj[body.x] ELSE Sentinel
\* The objects the last call allocated.
Fresh == (last.base + 1)..Len(heap)
\* x is the value of the callback f at v.
IsValueOf(f, v, x) ==
  CASE f = "double" -> x = Double(v)
    [] f = "undefined" -> x = Undefined
    [] f = "someDouble" ->
         /\ x.k = "object"
         /\ x.n \in Fresh
         /\ heap[x.n] = [tag |-> "Some", value |-> Double(v)]
    [] f = "none" ->
         /\ x.k = "object"
         /\ x.n \in Fresh
         /\ heap[x.n] = [tag |-> "None"]

\* C1: match with one handler per declared case invokes exactly one handler,
\* exactly once: the one keyed by the instance's own tag, on the instance
\* (so on its payload), and returns that handler's result, whatever the
\* order in which the handlers are declared.
C1_MatchDispatch ==
  FullMatch =>
    /\ last.threw = ""
    /\ last.calls = <<Call(Receiver.tag, Ref(last.self))>>
    /\ \A e \in Entries(last.handlers) :
         e.key = Receiver.tag => last.ret = Expected(e.body, Receiver)
    /\ \A p \in Perms(1..Len(last.handlers)) :
         LET other == [i \in 1..Len(last.handlers) |-> last.handlers[p[i]]]
         IN /\ Match(heap, last.self, other).ret = last.ret
            /\ Match(heap, last.self, other).calls = last.calls
C1_Witness ==
  /\ FullMatch
  /\ Receiver.tag = "Rectangle"
  /\ last.handlers[3] = Handler("Rectangle", Body("get", "width"))
  /\ last.handlers[1].body = Body("sentinel", "")
  /\ last.ret = Num(1)

\* C2: Result.ok(v) and Result.err(e) never fail and build an Ok holding v,
\* an Err holding e; matching an Ok with {Ok: x => x.value, Err: () =>
\* sentinel} returns the value and does not invoke the Err handler, matching
\* an Err with {Ok: () => sentinel, Err: x => x.error} returns the error and
\* does not invoke the Ok handler.
C2_ResultRoundTrip ==
  /\ last.op = "Result.ok" =>
       /\ last.threw = ""
       /\ last.ret = Ref(Len(heap))
       /\ heap[Len(heap)] = [tag |-> "Ok", value |-> last.arg]
  /\ last.op = "Result.err" =>
       /\ last.threw = ""
       /\ last.ret = Ref(Len(heap))
       /\ heap[Len(heap)] = [tag |-> "Err", error |-> last.arg]
  /\ ( /\ last.op = "match"
       /\ Receiver.tag = "Ok"
       /\ Entries(last.handlers) = {Handler("Ok", Body("get", "value")),
                                    Handler("Err", Body("sentinel", ""))} )
       => /\ last.threw = ""
          /\ last.ret = Receiver.value
          /\ \A i \in 1..Len(last.calls) : last.calls[i].who # "Err"
  /\ ( /\ last.op = "match"
       /\ Receiver.tag = "Err"
       /\ Entries(last.handlers) = {Handler("Ok", Body("sentinel", "")),
                                    Handler("Err", Body("get", "error"))} )
       => /\ last.threw = ""
          /\ last.ret = Receiver.error
          /\ \A i \in 1..Len(last.calls) : last.calls[i].who # "Ok"
C2_Witness ==
  /\ last.op = "match"
  /\ Receiver = [tag |-> "Err", error |-> Num(1)]
  /\ last.handlers = <<Handler("Ok", Body("sentinel", "")),
                       Handler("Err", Body("get", "error"))>>
  /\ last.ret = Num(1)

\* C3: Option.some(v) never fails and builds a Some holding v; on a Some,
\* isSome() is true, isNone() is false, unwrap() is the held value and
\* unwrapOr(d) is the held value for every d, and none of them fails.
C3_SomeAccessors ==
  /\ last.op = "Option.some" =>
       /\ last.threw = ""
       /\ last.ret = Ref(Len(heap))
       /\ heap[Len(heap)] = [tag |-> "Some", value |-> last.arg]
  /\ (last.op \in {"isSome", "isNone", "unwrap", "unwrapOr"}
      /\ Receiver.tag = "Some") =>
       /\ last.threw = ""
       /\ last.op = "isSome" => last.ret = Bool(TRUE)
       /\ last.op = "isNone" => last.ret = Bool(FALSE)
       /\ last.op = "unwrap" => last.ret = Receiver.value
       /\ last.op = "unwrapOr" => last.ret = Receiver.value
C3_Witness ==
  /\ last.op = "unwrapOr"
  /\ Receiver = [tag |-> "Some", value |-> Num(1)]
  /\ last.arg = Num(0)
  /\ last.ret = Num(1)

\* C4: Option.none() never fails and builds a None; on every None, built by
\* Option.none() or produced by map or flatMap, isSome() is false, isNone()
\* is true and unwrapOr(d) is d, and these calls never fail.
C4_NoneAccessors ==
  /\ last.op = "Option.none" =>
       /\ last.threw = ""
       /\ last.ret = Ref(Len(heap))
       /\ heap[Len(heap)] = [tag |-> "None"]
  /\ (last.op \in {"isSome", "isNone", "unwrapOr"} /\ Receiver.tag = "None") =>
       /\ last.threw = ""
       /\ last.op = "isSome" => last.ret = Bool(FALSE)
       /\ last.op = "isNone" => last.ret = Bool(TRUE)
       /\ last.op = "unwrapOr" => last.ret = last.arg
C4_Witness ==
  /\ last.op = "unwrapOr"
  /\ last.self > 1
  /\ Receiver.tag = "None"
  /\ last.arg = Num(1)
  /\ last.ret = Num(1)

\* C5: unwrap() on a None always throws 'Cannot unwrap None'; unwrap() on a
\* Some never throws; and no other call of the core throws: not the
\* constructors, not match with a full handler map, not isSome, isNone,
\* unwrapOr, map or flatMap.
C5_OnlyUnwrapNoneFails ==
  /\ (last.op = "unwrap" /\ Receiver.tag = "None") =>
       last.threw = "Cannot unwrap None"
  /\ (last.op = "unwrap" /\ Receiver.tag = "Some") => last.threw = ""
  /\ last.threw # "" =>
       \/ last.op = "unwrap" /\ Receiver.tag = "None"
       \/ last.op = "match" /\ ~FullMatch
C5_Witness ==
  /\ last.op = "unwrap"
  /\ Receiver.tag = "None"
  /\ last.threw = "Cannot unwrap None"

\* C6: map(f) on a Some holding v invokes f exactly once, on v, and returns
\* a new Some holding f(v), also when f(v) is undefined or an Option; map(f)
\* on a None returns a new None and never invokes f.
C6_Map ==
  last.op = "map" =>
    /\ last.threw = ""
    /\ last.ret.k = "object"
    /\ last.ret.n \in Fresh
    /\ last.ret.n # last.self
    /\ Receiver.tag = "Some" =>
         /\ last.calls = <<Call("Some", Ref(last.self)),
                           Call("f", Receiver.value)>>
         /\ heap[last.ret.n].tag = "Some"
         /\ IsValueOf(last.fn, Receiver.value, heap[last.ret.n].value)
    /\ Receiver.tag = "None" =>
         /\ last.calls = <<Call("None", Ref(last.self))>>
         /\ heap[last.ret.n] = [tag |-> "None"]
C6_Witness ==
  /\ last.op = "map"
  /\ last.fn = "none"
  /\ Receiver = [tag |-> "Some", value |-> Num(1)]
  /\ heap[last.ret.n].tag = "Some"
  /\ heap[heap[last.ret.n].value.n] = [tag |-> "None"]

\* C7: flatMap(f) on a Some holding v invokes f exactly once, on v, and
\* returns the very Option f returned, with no Some wrapped around it (a
\* None when f returned a None); flatMap(f) on a None returns a new None and
\* never invokes f.
C7_FlatMap ==
  last.op = "flatMap" =>
    /\ last.threw = ""
    /\ Len(heap) = last.base + 1
    /\ last.ret = Ref(Len(heap))
    /\ Receiver.tag = "Some" =>
         /\ last.calls = <<Call("Some", Ref(last.self)),
                           Call("f", Receiver.value)>>
         /\ IsValueOf(last.fn, Receiver.value, last.ret)
    /\ Receiver.tag = "None" =>
         /\ last.calls = <<Call("None", Ref(last.self))>>
         /\ heap[last.ret.n] = [tag |-> "None"]
C7_Witness ==
  /\ last.op = "flatMap"
  /\ last.fn = "someDouble"
  /\ Receiver = [tag |-> "Some", value |-> Num(1)]
  /\ heap[last.ret.n] = [tag |-> "Some", value |-> Num(2)]

\* C8: no call changes an object that exists: after every call, the tag and
\* the payload of every object, the receiver included, are what they were;
\* map and flatMap only add objects.
C8_Frozen ==
  [][/\ Len(heap') >= Len(heap)
     /\ \A a \in 1..Len(heap) : heap'[a] = heap[a]]_vars
C8_Witness ==
  /\ last.op = "flatMap"
  /\ last.self = 2
  /\ Receiver.tag = "Some"
  /\ heap[1].tag = "Some"
  /\ Len(heap) = 3

\* C9: every Result and Option object, built by a constructor or by map or
\* flatMap, has a tag of its family and exactly the payload fields of its
\* case: an Ok has value and no error, an Err has error and no value, a Some
\* has value, a None has no payload field; a constructor of Result returns a
\* Result and a constructor or combinator of Option returns an Option.
C9_WellFormed ==
  /\ \A a \in 1..Len(heap) :
       /\ heap[a].tag \in AllTags
       /\ heap[a].tag = "Ok" => DOMAIN heap[a] = {"tag", "value"}
       /\ heap[a].tag = "Err" => DOMAIN heap[a] = {"tag", "error"}
       /\ heap[a].tag = "Some" => DOMAIN heap[a] = {"tag", "value"}
       /\ heap[a].tag = "None" => DOMAIN heap[a] = {"tag"}
  /\ last.op \in {"Result.ok", "Result.err"} =>
       heap[last.ret.n].tag \in ResultTag
  /\ last.op \in {"Option.some", "Option.none", "map", "flatMap"} =>
       heap[last.ret.n].tag \in OptionTag
C9_Witness ==
  /\ Len(heap) = 3
  /\ heap[1].tag = "Some"
  /\ heap[2].tag = "None"
  /\ heap[3] = [tag |-> "Some", value |-> Ref(2)]

\* C10: findEven returns Some(x), x the first even element of the array in
\* order (zero and negative elements included), and None exactly when the
\* array has no even element; on [1,3,5,7,8,9] it returns Some(8), whose
\* unwrapOr(0) is 8 and whose map(x => x*2) is Some(16); on [1,3,5,7,9] it
\* returns None, whose unwrapOr(0) is 0 and whose unwrap() fails.
Evens == {i \in 1..Len(numbers) : numbers[i] % 2 = 0}
FirstEven == numbers[CHOOSE i \in Evens : \A j \in Evens : i <= j]
C10_FindEven ==
  /\ last.op = "findEven" =>
       /\ last.threw = ""
       /\ last.ret = Ref(Len(heap))
       /\ Evens # {} => heap[Len(heap)] = [tag |-> "Some", value |-> Num(FirstEven)]
       /\ Evens = {} => heap[Len(heap)] = [tag |-> "None"]
  /\ (numbers = <<1, 3, 5, 7, 8, 9>> /\ Len(heap) >= 1) =>
       /\ heap[1] = [tag |-> "Some", value |-> Num(8)]
       /\ (last.op = "unwrapOr" /\ last.self = 1 /\ last.arg = Num(0)) =>
            last.ret = Num(8)
       /\ (last.op = "map" /\ last.self = 1 /\ last.fn = "double") =>
            heap[last.ret.n] = [tag |-> "Some", value |-> Num(16)]
  /\ (numbers = <<1, 3, 5, 7, 9>> /\ Len(heap) >= 1) =>
       /\ heap[1] = [tag |-> "None"]
       /\ (last.op = "unwrapOr" /\ last.self = 1 /\ last.arg = Num(0)) =>
            last.ret = Num(0)
       /\ (last.op = "unwrap" /\ last.self = 1) => last.threw # ""
C10_Witness ==
  /\ last.op = "findEven"
  /\ numbers = <<1, 0, 2>>
  /\ heap[1] = [tag |-> "Some", value |-> Num(0)]

====
